---- MODULE Spec2Model ----
(***************************************************************************)
(* Model of the audiogram data-entry component (src/src/App.tsx): the      *)
(* coordinate mapper, the per-ear measurement store and the submission     *)
(* flow with its deferred callbacks.                                       *)
(*                                                                         *)
(* Real numbers of the program are fixed-point integers here:              *)
(*   pixels       in 1/PixelScale pixel,                                   *)
(*   log2 values  in 1/LogScale octave,                                    *)
(*   frequencies  in 1/HzScale Hz,                                         *)
(*   intensities  in 1/DbScale dB.                                         *)
(* An optional number (number | null) is a sequence of length 0 or 1.      *)
(* A string is a sequence of one-character strings.                        *)
(***************************************************************************)
EXTENDS Integers, Sequences, FiniteSets, TLC

\* ------------------------------------------------------------ constants
FREQUENCIES == <<250, 500, 1000, 2000, 4000, 8000>>

INTENSITY_RANGE == <<-10, 120>>

LEFT_PADDING == 80

TOP_PADDING == 80

BOTTOM_PADDING == 50

\* setTimeout delays of submitData, in milliseconds
RESOLVE_DELAY == 1500

IDLE_DELAY == 2000

\* the quantization step of handleCanvasClick
STEP == 5

\* ------------------------------------------------------------ fixed point
PixelScale == 10 * 10

FracBits == 5 + 5

MantBits == 7 + 7

DbScale == 10 * 10

RECURSIVE TwoTo(_)
TwoTo(n) == IF n = 0 THEN 1 ELSE 2 * TwoTo(n - 1)

LogScale == TwoTo(FracBits)

MantOne == TwoTo(MantBits)

\* frequencies are kept in sixteenths of a Hz
HzScale == TwoTo(4)

Abs(v) == IF v < 0 THEN 0 - v ELSE v

\* floor(log2(n)) for an integer n >= 1
RECURSIVE FloorLog2(_)
FloorLog2(n) == IF n < 2 THEN 0 ELSE 1 + FloorLog2(n \div 2)

\* the fraction bits of log2(m / MantOne), m / MantOne in [1, 2), by repeated
\* squaring; `bits` is the number of bits still to produce
RECURSIVE LogFrac(_, _)
LogFrac(m, bits) ==
  IF bits = 0 THEN 0
  ELSE LET sq == (m * m) \div MantOne
       IN IF sq >= 2 * MantOne
          THEN TwoTo(bits - 1) + LogFrac(sq \div 2, bits - 1)
          ELSE LogFrac(sq, bits - 1)

\* Math.log2 of a positive integer, in 1/LogScale
Log2(n) ==
  LET e == FloorLog2(n)
      m == (n * MantOne) \div TwoTo(e)
  IN e * LogScale + LogFrac(m, FracBits)

\* 2^(2^-k) in 1/MantOne, k = 1 .. FracBits (rounded to nearest)
RootOfTwo == <<23170, 19484, 17867, 17109, 16743, 16562, 16473, 16428, 16406, 16395>>

\* 2^(f / LogScale) in 1/MantOne for 0 <= f < LogScale: the product of the
\* roots selected by the bits of f, most significant first
RECURSIVE PowFrac(_, _)
PowFrac(f, k) ==
  IF k > FracBits THEN MantOne
  ELSE LET w    == TwoTo(FracBits - k)
           rest == PowFrac(f % w, k + 1)
       IN IF f \div w >= 1
          THEN (RootOfTwo[k] * rest) \div MantOne
          ELSE rest

\* Math.pow(2, l) for l >= 0 in 1/LogScale; the result in 1/HzScale
Pow2(l) ==
  LET e == l \div LogScale
      m == PowFrac(l % LogScale, 1)
  IN (m * TwoTo(e) * HzScale) \div MantOne

\* Math.round of a fixed-point value v with `scale` units per 1: the nearest
\* integer, a tie going up
Round(v, scale) == (2 * v + scale) \div (2 * scale)

\* ------------------------------------------------------------ coordinate mapper
\* Math.log2(FREQUENCIES[0]) and Math.log2(FREQUENCIES[FREQUENCIES.length - 1])
LogMinFrequency == Log2(FREQUENCIES[1])

LogMaxFrequency == Log2(FREQUENCIES[Len(FREQUENCIES)])

frequencyToX(frequency, canvasWidth) ==
  LET minFrequency == LogMinFrequency
      maxFrequency == LogMaxFrequency
      logFrequency == Log2(frequency)
  IN (canvasWidth * (logFrequency - minFrequency)) \div (maxFrequency - minFrequency)

\* a slip: the lower end of the range is not subtracted
intensityToY_NoOffset(intensity, canvasHeight) ==
  LET minIntensity == INTENSITY_RANGE[1]
      maxIntensity == INTENSITY_RANGE[2]
  IN (canvasHeight * intensity) \div (maxIntensity - minIntensity)

intensityToY(intensity, canvasHeight) ==
  LET minIntensity == INTENSITY_RANGE[1]
      maxIntensity == INTENSITY_RANGE[2]
  IN (canvasHeight * (intensity - minIntensity)) \div (maxIntensity - minIntensity)

\* a slip: the inverse interpolates the frequency itself, not its logarithm
xToFrequency_Linear(x, canvasWidth) ==
  LET minFrequency == FREQUENCIES[1] * HzScale
      maxFrequency == FREQUENCIES[Len(FREQUENCIES)] * HzScale
  IN minFrequency + (x * (maxFrequency - minFrequency)) \div canvasWidth

xToFrequency(x, canvasWidth) ==
  LET minFrequency == LogMinFrequency
      maxFrequency == LogMaxFrequency
      logFrequency == minFrequency + (x * (maxFrequency - minFrequency)) \div canvasWidth
  IN Pow2(logFrequency)

\* in 1/DbScale dB
yToIntensity(y, canvasHeight) ==
  LET minIntensity == INTENSITY_RANGE[1]
      maxIntensity == INTENSITY_RANGE[2]
  IN minIntensity * DbScale + (y * (maxIntensity - minIntensity) * DbScale) \div canvasHeight

\* the loop of findNearestFrequency from index i on, with the closest
\* frequency and its distance so far
RECURSIVE NearestFrom(_, _, _, _)
NearestFrom(frequency, i, closestFrequency, minDiff) ==
  IF i > Len(FREQUENCIES) THEN closestFrequency
  ELSE LET diff == Abs(frequency - FREQUENCIES[i] * HzScale)
       IN IF diff < minDiff
          THEN NearestFrom(frequency, i + 1, FREQUENCIES[i], diff)
          ELSE NearestFrom(frequency, i + 1, closestFrequency, minDiff)

findNearestFrequency(x, canvasWidth) ==
  LET frequency == xToFrequency(x, canvasWidth)
  IN NearestFrom(frequency, 2, FREQUENCIES[1], Abs(frequency - FREQUENCIES[1] * HzScale))

\* ------------------------------------------------------------ strings
WHITESPACE == {" "}

DIGITS == {"0", "1", "2", "3", "4", "5", "6", "7", "8", "9"}

\* String.prototype.trim
RECURSIVE TrimStart(_)
TrimStart(s) ==
  IF s # <<>> /\ Head(s) \in WHITESPACE THEN TrimStart(Tail(s)) ELSE s

RECURSIVE TrimEnd(_)
TrimEnd(s) ==
  IF s # <<>> /\ s[Len(s)] \in WHITESPACE THEN TrimEnd(SubSeq(s, 1, Len(s) - 1)) ELSE s

Trim(s) == TrimEnd(TrimStart(s))

\* isNaN(Number(s)) for strings over digits, sign, point, blanks and letters:
\* Number trims, reads the empty string as 0 and otherwise wants an optional
\* sign and a decimal literal with at least one digit and at most one point
\* (exponents, Infinity and radix prefixes are outside the modelled alphabet)
IsNaNNumber(s) ==
  LET t        == Trim(s)
      unsigned == IF t # <<>> /\ Head(t) \in {"+", "-"} THEN Tail(t) ELSE t
      points   == {i \in 1..Len(unsigned) : unsigned[i] = "."}
      digits   == {i \in 1..Len(unsigned) : unsigned[i] \in DIGITS}
  IN IF t = <<>> THEN FALSE
     ELSE ~(/\ digits # {}
            /\ Cardinality(points) <= 1
            /\ \A i \in 1..Len(unsigned) : i \in points \/ i \in digits)

\* ------------------------------------------------------------ state
VARIABLES
  leftEarData,        \* useState<AudiogramPoint[]>
  rightEarData,       \* useState<AudiogramPoint[]>
  selectedEar,        \* "left" | "right"
  isDrawingAir,       \* boolean
  showSubmission,     \* boolean: the dialog is open
  patientName,        \* string
  patientAge,         \* string
  submissionStatus,   \* "idle" | "submitting" | "success" | "error"
  submissionMessage,  \* string
  canvas,             \* the canvas element's width and height, in pixels
  timers,             \* pending setTimeout callbacks, in order of creation
  consoleLog,         \* the payloads written by console.log, oldest first
  lastEvent,          \* observer: the handler that ran last, with its input
  probe               \* the coordinate mapper's specification: input and result

vars == <<leftEarData, rightEarData, selectedEar, isDrawingAir, showSubmission,
          patientName, patientAge, submissionStatus, submissionMessage, canvas,
          timers, consoleLog, lastEvent, probe>>

store == <<leftEarData, rightEarData>>

selection == <<selectedEar, isDrawingAir>>

patient == <<patientName, patientAge>>

submission == <<submissionStatus, submissionMessage, showSubmission>>

\* ------------------------------------------------------------ model bounds
\* the width of #audiogram-container, in pixels
ContainerWidth == 800

\* accepted submissions in one run of Spec
MaxSubmits == 2

\* accepted submissions in one run of SpecSubmit
MaxFormSubmits == 2

\* recorded thresholds at a time in SpecStore
MaxPoints == 2

\* the widest plot of SpecMap, in quarter pixels
MaxPlotQuarters == 2400

\* the highest plot of SpecMap, in pixels
MaxPlotHeight == 500

\* the clock of the deferred callbacks advances in steps of TickMs
TickMs == 5 * 100

\* ------------------------------------------------------------ data model
NULL == <<>>

Some(v) == <<v>>

Point(f, air, bone) == [frequency |-> f, airConduction |-> air, boneConduction |-> bone]

\* FREQUENCIES.map((f) => ({frequency: f, airConduction: null, boneConduction: null}))
EmptyData == [i \in 1..Len(FREQUENCIES) |-> Point(FREQUENCIES[i], NULL, NULL)]

\* data.some((point) => point.airConduction !== null || point.boneConduction !== null)
HasAnyData(data) ==
  \E i \in 1..Len(data) : data[i].airConduction # NULL \/ data[i].boneConduction # NULL

\* Array.prototype.findIndex on point.frequency, 1-based; 0 stands for -1
FindIndex(data, frequency) ==
  LET hits == {i \in 1..Len(data) : data[i].frequency = frequency}
  IN IF hits = {} THEN 0 ELSE CHOOSE i \in hits : \A j \in hits : i <= j

Event(op, arg) == [op |-> op, arg |-> arg]

\* the observer is attached in the specifications that watch single handlers
Detached == Event("detached", <<>>)

Observe(event) ==
  IF lastEvent = Detached THEN UNCHANGED lastEvent ELSE lastEvent' = event

NoProbe == [op |-> "none"]

\* the mount effect: canvas.width = graphWidth + legendWidth, canvas.height =
\* 0.7 * containerWidth (an integer attribute: the fraction is dropped)
MountCanvas(containerWidth) ==
  LET graphWidth      == (containerWidth * PixelScale * 75) \div 100
      legendWidth     == (containerWidth * PixelScale * 25) \div 100
      containerHeight == (containerWidth * PixelScale * 7) \div 10
  IN [width  |-> (graphWidth + legendWidth) \div PixelScale,
      height |-> containerHeight \div PixelScale]

Init ==
  /\ leftEarData = EmptyData
  /\ rightEarData = EmptyData
  /\ selectedEar = "left"
  /\ isDrawingAir = TRUE
  /\ showSubmission = FALSE
  /\ patientName = <<>>
  /\ patientAge = <<>>
  /\ submissionStatus = "idle"
  /\ submissionMessage = ""
  /\ canvas = MountCanvas(ContainerWidth)
  /\ timers = <<>>
  /\ consoleLog = <<>>
  /\ lastEvent = Detached
  /\ probe = NoProbe

\* ------------------------------------------------------------ inputs
\* onChange of the patient name input
SetPatientName(value) ==
  /\ value # patientName
  /\ patientName' = value
  /\ Observe(Event("setPatientName", <<>>))
  /\ UNCHANGED <<store, selection, patientAge, submission, canvas, timers, consoleLog, probe>>

\* onChange of the patient age input
SetPatientAge(value) ==
  /\ value # patientAge
  /\ patientAge' = value
  /\ Observe(Event("setPatientAge", <<>>))
  /\ UNCHANGED <<store, selection, patientName, submission, canvas, timers, consoleLog, probe>>

selectEar(ear) ==
  /\ selectedEar' = ear
  /\ Observe(Event("selectEar", <<>>))
  /\ UNCHANGED <<store, isDrawingAir, patient, submission, canvas, timers, consoleLog, probe>>

selectDrawingMode(newIsDrawingAir) ==
  /\ isDrawingAir' = newIsDrawingAir
  /\ Observe(Event("selectDrawingMode", <<>>))
  /\ UNCHANGED <<store, selectedEar, patient, submission, canvas, timers, consoleLog, probe>>

\* ------------------------------------------------------------ measurement store
\* the plot rectangle of handleCanvasClick, in 1/PixelScale pixel
GraphWidth == (canvas.width * PixelScale * 75) \div 100 - LEFT_PADDING * PixelScale

GraphHeight == (canvas.height - TOP_PADDING - BOTTOM_PADDING) * PixelScale

\* a slip: the right edge of the plot is not checked
OutsidePlot_NoRightEdge(adjustedX, adjustedY, graphWidth, graphHeight) ==
  \/ adjustedX < 0
  \/ adjustedY < 0
  \/ adjustedY > graphHeight

\* the first early return of handleCanvasClick
OutsidePlot(adjustedX, adjustedY, graphWidth, graphHeight) ==
  \/ adjustedX < 0
  \/ adjustedX > graphWidth
  \/ adjustedY < 0
  \/ adjustedY > graphHeight

\* a slip: the intensity is cut to whole dB, not rounded to the step
ClickedIntensity_Unquantized(adjustedY, graphHeight) ==
  yToIntensity(adjustedY, graphHeight) \div DbScale

\* Math.round(yToIntensity(adjustedY, graphHeight) / 5) * 5
ClickedIntensity(adjustedY, graphHeight) ==
  Round(yToIntensity(adjustedY, graphHeight), STEP * DbScale) * STEP

\* the second early return of handleCanvasClick
OutsideRange(clickedIntensity) ==
  \/ clickedIntensity < INTENSITY_RANGE[1]
  \/ clickedIntensity > INTENSITY_RANGE[2]

\* a slip: the entry is rebuilt without the spread of the old one
SetPoint_NoSpread(data, pointIndex, drawingAir, clickedIntensity) ==
  IF drawingAir
  THEN [data EXCEPT ![pointIndex] = Point(data[pointIndex].frequency, Some(clickedIntensity), NULL)]
  ELSE [data EXCEPT ![pointIndex] = Point(data[pointIndex].frequency, NULL, Some(clickedIntensity))]

\* a slip: the click adds an entry where it should replace one
SetPoint_Push(data, pointIndex, drawingAir, clickedIntensity) ==
  IF drawingAir
  THEN Append(data, Point(data[pointIndex].frequency, Some(clickedIntensity), NULL))
  ELSE Append(data, Point(data[pointIndex].frequency, NULL, Some(clickedIntensity)))

\* newData[pointIndex] = {...newData[pointIndex], airConduction | boneConduction: clickedIntensity}
SetPoint(data, pointIndex, drawingAir, clickedIntensity) ==
  IF drawingAir
  THEN [data EXCEPT ![pointIndex].airConduction = Some(clickedIntensity)]
  ELSE [data EXCEPT ![pointIndex].boneConduction = Some(clickedIntensity)]

\* the dataset handleCanvasClick stores for the selected ear
ClickedData(data, adjustedX, adjustedY, graphWidth, graphHeight) ==
  LET clickedFrequency == findNearestFrequency(adjustedX, graphWidth)
      clickedIntensity == ClickedIntensity(adjustedY, graphHeight)
      pointIndex       == FindIndex(data, clickedFrequency)
  IN IF OutsidePlot(adjustedX, adjustedY, graphWidth, graphHeight) THEN data
     ELSE IF OutsideRange(clickedIntensity) THEN data
     ELSE IF pointIndex = 0 THEN data
     ELSE SetPoint(data, pointIndex, isDrawingAir, clickedIntensity)

\* a click at (x, y), in pixels from the canvas's top left corner
handleCanvasClick(x, y) ==
  LET adjustedX == (x - LEFT_PADDING) * PixelScale
      adjustedY == (y - TOP_PADDING) * PixelScale
  IN /\ IF selectedEar = "left"
        THEN /\ leftEarData' = ClickedData(leftEarData, adjustedX, adjustedY, GraphWidth, GraphHeight)
             /\ UNCHANGED rightEarData
        ELSE /\ rightEarData' = ClickedData(rightEarData, adjustedX, adjustedY, GraphWidth, GraphHeight)
             /\ UNCHANGED leftEarData
     /\ Observe(Event("click", <<x, y>>))
     /\ UNCHANGED <<selection, patient, submission, canvas, timers, consoleLog, probe>>

\* a slip: either button clears both ears
clearData_Both(ear) ==
  /\ leftEarData' = EmptyData
  /\ rightEarData' = EmptyData
  /\ Observe(Event("clear", <<ear>>))
  /\ UNCHANGED <<selection, patient, submission, canvas, timers, consoleLog, probe>>

clearData(ear) ==
  LET newData == EmptyData
  IN /\ IF ear = "left"
        THEN leftEarData' = newData /\ UNCHANGED rightEarData
        ELSE rightEarData' = newData /\ UNCHANGED leftEarData
     /\ Observe(Event("clear", <<ear>>))
     /\ UNCHANGED <<selection, patient, submission, canvas, timers, consoleLog, probe>>

\* ------------------------------------------------------------ submission flow
MSG_NAME == "Please enter patient name."

MSG_AGE == "Please enter a valid age."

MSG_DATA == "Please enter audiogram data for at least one ear."

MSG_SUBMITTING == "Submitting data..."

MSG_SUCCESS == "Data submitted successfully!"

\* a slip: data is asked of both ears
ValidationError_BothEars(name, age, left, right) ==
  IF Trim(name) = <<>> THEN MSG_NAME
  ELSE IF Trim(age) = <<>> \/ IsNaNNumber(age) THEN MSG_AGE
  ELSE IF ~HasAnyData(left) \/ ~HasAnyData(right) THEN MSG_DATA
  ELSE ""

\* a slip: the age is checked before the name
ValidationError_AgeFirst(name, age, left, right) ==
  IF Trim(age) = <<>> \/ IsNaNNumber(age) THEN MSG_AGE
  ELSE IF Trim(name) = <<>> THEN MSG_NAME
  ELSE IF ~HasAnyData(left) /\ ~HasAnyData(right) THEN MSG_DATA
  ELSE ""

\* the message of the first failing check of submitData, "" when all pass
ValidationError(name, age, left, right) ==
  IF Trim(name) = <<>> THEN MSG_NAME
  ELSE IF Trim(age) = <<>> \/ IsNaNNumber(age) THEN MSG_AGE
  ELSE IF ~HasAnyData(left) /\ ~HasAnyData(right) THEN MSG_DATA
  ELSE ""

Ticks(ms) == ms \div TickMs

\* setTimeout(callback, ms): the callback joins the pending ones
SetTimeout(pending, kind, payload, ms) ==
  Append(pending, [kind |-> kind, payload |-> payload, rem |-> Ticks(ms)])

Submitted == Len(consoleLog) + Cardinality({i \in 1..Len(timers) : timers[i].kind = "resolve"})

\* a slip, or a guard added later: a submit while one is pending is dropped
submitData_Guarded ==
  LET error == ValidationError(patientName, patientAge, leftEarData, rightEarData)
      submissionData == [patientName  |-> patientName,
                         patientAge   |-> patientAge,
                         leftEarData  |-> leftEarData,
                         rightEarData |-> rightEarData]
  IN /\ IF submissionStatus = "submitting"
        THEN UNCHANGED <<submission, timers>>
        ELSE IF error # ""
        THEN /\ submissionMessage' = error
             /\ submissionStatus' = "error"
             /\ showSubmission' = TRUE
             /\ UNCHANGED timers
        ELSE /\ submissionStatus' = "submitting"
             /\ submissionMessage' = MSG_SUBMITTING
             /\ showSubmission' = TRUE
             /\ timers' = SetTimeout(timers, "resolve", submissionData, RESOLVE_DELAY)
     /\ Observe(Event("submit", <<>>))
     /\ UNCHANGED <<store, selection, patient, canvas, consoleLog, probe>>

submitData ==
  LET error == ValidationError(patientName, patientAge, leftEarData, rightEarData)
      submissionData == [patientName  |-> patientName,
                         patientAge   |-> patientAge,
                         leftEarData  |-> leftEarData,
                         rightEarData |-> rightEarData]
  IN /\ IF error # ""
        THEN /\ submissionMessage' = error
             /\ submissionStatus' = "error"
             /\ showSubmission' = TRUE
             /\ UNCHANGED timers
        ELSE /\ submissionStatus' = "submitting"
             /\ submissionMessage' = MSG_SUBMITTING
             /\ showSubmission' = TRUE
             /\ timers' = SetTimeout(timers, "resolve", submissionData, RESOLVE_DELAY)
     /\ Observe(Event("submit", <<>>))
     /\ UNCHANGED <<store, selection, patient, canvas, consoleLog, probe>>

\* the dialog's onOpenChange(false): Escape, the overlay or the close icon
DialogOpenChange ==
  /\ showSubmission
  /\ showSubmission' = FALSE
  /\ Observe(Event("onOpenChange", <<>>))
  /\ UNCHANGED <<store, selection, patient, submissionStatus, submissionMessage,
                 canvas, timers, consoleLog, probe>>

\* the Close button, rendered in the open dialog while the status is error
CloseButton ==
  /\ showSubmission
  /\ submissionStatus = "error"
  /\ showSubmission' = FALSE
  /\ Observe(Event("close", <<>>))
  /\ UNCHANGED <<store, selection, patient, submissionStatus, submissionMessage,
                 canvas, timers, consoleLog, probe>>

\* ------------------------------------------------------------ deferred callbacks
Remove(seq, i) == SubSeq(seq, 1, i - 1) \o SubSeq(seq, i + 1, Len(seq))

\* callback i is due, and so is no callback of the same delay created before it
Due(i) ==
  /\ i \in 1..Len(timers)
  /\ timers[i].rem = 0
  /\ \A j \in 1..(i - 1) : timers[j].kind # timers[i].kind

\* TickMs pass; a due callback runs before the clock moves on
Tick ==
  /\ timers # <<>>
  /\ \A i \in 1..Len(timers) : timers[i].rem > 0
  /\ timers' = [i \in 1..Len(timers) |-> [timers[i] EXCEPT !.rem = @ - 1]]
  /\ Observe(Event("tick", <<>>))
  /\ UNCHANGED <<store, selection, patient, submission, canvas, consoleLog, probe>>

\* a slip: the resolution does not defer the return to idle
ResolveSubmission_NoReturn(i) ==
  /\ Due(i)
  /\ timers[i].kind = "resolve"
  /\ consoleLog' = Append(consoleLog, timers[i].payload)
  /\ submissionStatus' = "success"
  /\ submissionMessage' = MSG_SUCCESS
  /\ patientName' = <<>>
  /\ patientAge' = <<>>
  /\ leftEarData' = EmptyData
  /\ rightEarData' = EmptyData
  /\ timers' = Remove(timers, i)
  /\ Observe(Event("resolve", <<>>))
  /\ UNCHANGED <<selection, showSubmission, canvas, probe>>

\* a slip: the resolution resets the left ear only
ResolveSubmission_LeftOnly(i) ==
  /\ Due(i)
  /\ timers[i].kind = "resolve"
  /\ consoleLog' = Append(consoleLog, timers[i].payload)
  /\ submissionStatus' = "success"
  /\ submissionMessage' = MSG_SUCCESS
  /\ patientName' = <<>>
  /\ patientAge' = <<>>
  /\ leftEarData' = EmptyData
  /\ timers' = SetTimeout(Remove(timers, i), "idle", <<>>, IDLE_DELAY)
  /\ Observe(Event("resolve", <<>>))
  /\ UNCHANGED <<rightEarData, selection, showSubmission, canvas, probe>>

\* a slip: the resolution logs the form as it is when the callback runs
ResolveSubmission_LogsCurrent(i) ==
  /\ Due(i)
  /\ timers[i].kind = "resolve"
  /\ consoleLog' = Append(consoleLog, [patientName  |-> patientName,
                                       patientAge   |-> patientAge,
                                       leftEarData  |-> leftEarData,
                                       rightEarData |-> rightEarData])
  /\ submissionStatus' = "success"
  /\ submissionMessage' = MSG_SUCCESS
  /\ patientName' = <<>>
  /\ patientAge' = <<>>
  /\ leftEarData' = EmptyData
  /\ rightEarData' = EmptyData
  /\ timers' = SetTimeout(Remove(timers, i), "idle", <<>>, IDLE_DELAY)
  /\ Observe(Event("resolve", <<>>))
  /\ UNCHANGED <<selection, showSubmission, canvas, probe>>

\* the callback submitData defers by RESOLVE_DELAY (success is the constant true)
ResolveSubmission(i) ==
  /\ Due(i)
  /\ timers[i].kind = "resolve"
  /\ consoleLog' = Append(consoleLog, timers[i].payload)
  /\ submissionStatus' = "success"
  /\ submissionMessage' = MSG_SUCCESS
  /\ patientName' = <<>>
  /\ patientAge' = <<>>
  /\ leftEarData' = EmptyData
  /\ rightEarData' = EmptyData
  /\ timers' = SetTimeout(Remove(timers, i), "idle", <<>>, IDLE_DELAY)
  /\ Observe(Event("resolve", <<>>))
  /\ UNCHANGED <<selection, showSubmission, canvas, probe>>

\* the callback the resolution defers by IDLE_DELAY
ReturnToIdle(i) ==
  /\ Due(i)
  /\ timers[i].kind = "idle"
  /\ showSubmission' = FALSE
  /\ submissionStatus' = "idle"
  /\ submissionMessage' = ""
  /\ timers' = Remove(timers, i)
  /\ Observe(Event("idle", <<>>))
  /\ UNCHANGED <<store, selection, patient, canvas, consoleLog, probe>>

\* ------------------------------------------------------------ specifications
Ears == {"left", "right"}

\* an accepted submission stays within the budget of n
WithinBudget(n) ==
  ValidationError(patientName, patientAge, leftEarData, rightEarData) = "" => Submitted < n

Clear == \E ear \in Ears : clearData(ear)

Dismiss == DialogOpenChange \/ CloseButton

Resolve == \E i \in 1..Len(timers) : ResolveSubmission(i)

Idle == \E i \in 1..Len(timers) : ReturnToIdle(i)

\* --- Spec: the whole component, driven from the mounted state
Names == {<<" ">>, <<"A", "l">>}

Ages == {<<"4", "x">>, <<"4", "2">>}

\* a click in the plot, at 500 Hz and 20 dB
ClickXs == {184}

ClickYs == {179}

EditPatient ==
  \/ \E value \in Names : SetPatientName(value)
  \/ \E value \in Ages : SetPatientAge(value)

Click == \E x \in ClickXs, y \in ClickYs : handleCanvasClick(x, y)

Submit == WithinBudget(MaxSubmits) /\ submitData

Next ==
  \/ EditPatient
  \/ Click
  \/ Clear
  \/ Submit
  \/ Dismiss
  \/ Tick
  \/ Resolve
  \/ Idle

Spec == Init /\ [][Next]_vars

\* --- SpecPending: the whole component with two plot positions, the canvas
\* clicked only while the dialog is hidden
PendingClicks == {<<80, 179>>, <<392, 179>>}

ClickBehind ==
  /\ ~showSubmission
  /\ \E click \in PendingClicks : handleCanvasClick(click[1], click[2])

NextPending ==
  \/ EditPatient
  \/ ClickBehind
  \/ Submit
  \/ Dismiss
  \/ Tick
  \/ Resolve
  \/ Idle

SpecPending == Init /\ [][NextPending]_vars

\* --- SpecSubmit: submitData over a range of forms, each one a state the
\* component reaches by typing and clicking
FormNames == {<<>>, <<" ">>, <<"A", "l">>, <<" ", "A", " ">>}

FormAges == {<<>>, <<" ">>, <<"4", "2">>, <<"4", "x">>, <<"-", "1", ".", "5">>, <<"1", ".", "2", ".", "3">>, <<"-">>}

FormDatasets ==
  { EmptyData,
    [EmptyData EXCEPT ![2].airConduction = Some(20)],
    [EmptyData EXCEPT ![5].boneConduction = Some(-10)] }

InitSubmit ==
  /\ leftEarData \in FormDatasets
  /\ rightEarData \in FormDatasets
  /\ selectedEar = "left"
  /\ isDrawingAir = TRUE
  /\ showSubmission = FALSE
  /\ patientName \in FormNames
  /\ patientAge \in FormAges
  /\ submissionStatus = "idle"
  /\ submissionMessage = ""
  /\ canvas = MountCanvas(ContainerWidth)
  /\ timers = <<>>
  /\ consoleLog = <<>>
  /\ lastEvent = Event("mount", <<>>)
  /\ probe = NoProbe

SubmitForm == WithinBudget(MaxFormSubmits) /\ submitData

NextSubmit ==
  \/ SubmitForm
  \/ Dismiss
  \/ Tick
  \/ Resolve
  \/ Idle

SpecSubmit == InitSubmit /\ [][NextSubmit]_vars

\* --- SpecStore: the measurement store under clicks all over the canvas
\* in the plot: its top left corner (250 Hz, -10 dB), 20 dB at 250 Hz and at
\* 2000 Hz, and its bottom edge (120 dB) at 2000 Hz
InsideClicks == {<<80, 80>>, <<80, 179>>, <<392, 179>>, <<392, 510>>}

\* one pixel past the plot's left, right, top and bottom edge
OutsideClicks == {<<79, 179>>, <<601, 179>>, <<392, 79>>, <<392, 511>>}

StoreClicks == InsideClicks \cup OutsideClicks

Points(data) ==
  Cardinality({i \in 1..Len(data) : data[i].airConduction # NULL})
  + Cardinality({i \in 1..Len(data) : data[i].boneConduction # NULL})

InitStore ==
  /\ leftEarData = EmptyData
  /\ rightEarData = EmptyData
  /\ selectedEar = "left"
  /\ isDrawingAir = TRUE
  /\ showSubmission = FALSE
  /\ patientName = <<>>
  /\ patientAge = <<>>
  /\ submissionStatus = "idle"
  /\ submissionMessage = ""
  /\ canvas = MountCanvas(ContainerWidth)
  /\ timers = <<>>
  /\ consoleLog = <<>>
  /\ lastEvent = Event("mount", <<>>)
  /\ probe = NoProbe

Select ==
  \/ \E ear \in Ears : selectEar(ear)
  \/ \E air \in BOOLEAN : selectDrawingMode(air)

ClickStore ==
  \E click \in StoreClicks :
    /\ handleCanvasClick(click[1], click[2])
    /\ Points(leftEarData') + Points(rightEarData') <= MaxPoints

NextStore ==
  \/ Select
  \/ ClickStore
  \/ Clear

SpecStore == InitStore /\ [][NextStore]_vars

\* --- SpecMap: the coordinate mapper on its own
\* plot sizes from a quarter pixel on, in quarter pixels: the sizes that
\* canvas.width * 0.75 - LEFT_PADDING takes
PlotSizes == {(n * PixelScale) \div 4 : n \in 1..MaxPlotQuarters}

FrequencySet == {FREQUENCIES[i] : i \in 1..Len(FREQUENCIES)}

\* plot heights in whole pixels, as canvas.height - TOP_PADDING -
\* BOTTOM_PADDING is
PlotHeights == {n * PixelScale : n \in 1..MaxPlotHeight}

\* the multiples of STEP in INTENSITY_RANGE
IntensityGrid ==
  {v \in INTENSITY_RANGE[1]..INTENSITY_RANGE[2] : v % STEP = 0}

InitMap ==
  /\ leftEarData = EmptyData
  /\ rightEarData = EmptyData
  /\ selectedEar = "left"
  /\ isDrawingAir = TRUE
  /\ showSubmission = FALSE
  /\ patientName = <<>>
  /\ patientAge = <<>>
  /\ submissionStatus = "idle"
  /\ submissionMessage = ""
  /\ canvas = MountCanvas(ContainerWidth)
  /\ timers = <<>>
  /\ consoleLog = <<>>
  /\ lastEvent = Detached
  /\ probe \in [op : {"frequency"}, value : FrequencySet, size : PlotSizes]
               \cup [op : {"intensity"}, value : IntensityGrid, size : PlotHeights]

\* frequencyToX, then findNearestFrequency on the pixel it gives
MapFrequency ==
  /\ probe.op = "frequency"
  /\ probe' = [op      |-> "snapped",
               value   |-> probe.value,
               size    |-> probe.size,
               pixel   |-> frequencyToX(probe.value, probe.size),
               nearest |-> findNearestFrequency(frequencyToX(probe.value, probe.size), probe.size)]
  /\ UNCHANGED <<store, selection, patient, submission, canvas, timers, consoleLog, lastEvent>>

\* intensityToY, then the click handler's quantized yToIntensity on the
\* pixel it gives
MapIntensity ==
  /\ probe.op = "intensity"
  /\ probe' = [op      |-> "quantized",
               value   |-> probe.value,
               size    |-> probe.size,
               pixel   |-> intensityToY(probe.value, probe.size),
               nearest |-> ClickedIntensity(intensityToY(probe.value, probe.size), probe.size)]
  /\ UNCHANGED <<store, selection, patient, submission, canvas, timers, consoleLog, lastEvent>>

NextMap ==
  \/ MapFrequency
  \/ MapIntensity

SpecMap == InitMap /\ [][NextMap]_vars

\* --- FairSpec: Spec where every due callback runs, time passes, and an open
\* dialog is dismissed in the end
FairSpec ==
  /\ Spec
  /\ WF_vars(Tick)
  /\ WF_vars(Resolve)
  /\ WF_vars(Idle)
  /\ WF_vars(Dismiss)

\* --- FairSubmit: SpecSubmit where every due callback runs and time passes
FairSubmit ==
  /\ SpecSubmit
  /\ WF_vars(Tick)
  /\ WF_vars(Resolve)
  /\ WF_vars(Idle)

\* --- FairCallbacks: Spec where every due callback runs and time passes; the
\* user is free to act or not
FairCallbacks ==
  /\ Spec
  /\ WF_vars(Tick)
  /\ WF_vars(Resolve)
  /\ WF_vars(Idle)

\* ------------------------------------------------------------ claims
Blank(s) == \A i \in 1..Len(s) : s[i] = " "

\* the ages of FormAges and Ages that JavaScript reads as a number
NumericAges == {<<"4", "2">>, <<"-", "1", ".", "5">>}

AllNull(data) ==
  \A i \in 1..Len(data) : data[i].airConduction = <<>> /\ data[i].boneConduction = <<>>

FormValid ==
  /\ ~Blank(patientName)
  /\ patientAge \in NumericAges
  /\ ~(AllNull(leftEarData) /\ AllNull(rightEarData))

\* C1: the status only moves along idle -> submitting -> (success | error) ->
\* idle: submitting and error are entered from idle (error also from
\* submitting), success from submitting, idle from success or error.
C1_StatusCycle ==
  [][submissionStatus' # submissionStatus =>
       \/ submissionStatus = "idle" /\ submissionStatus' \in {"submitting", "error"}
       \/ submissionStatus = "submitting" /\ submissionStatus' \in {"success", "error"}
       \/ submissionStatus \in {"success", "error"} /\ submissionStatus' = "idle"]_vars

\* C2: a submit moves the status to submitting and schedules a resolution if
\* and only if the name is not blank, the age is a non-blank numeric string and
\* some ear has a recorded threshold; otherwise the status becomes error with
\* a validation message and nothing is scheduled.
C2_SubmitAcceptsIffValid ==
  [][lastEvent'.op = "submit" =>
       IF FormValid
       THEN /\ submissionStatus' = "submitting"
            /\ Len(timers') = Len(timers) + 1
            /\ timers'[Len(timers')].kind = "resolve"
       ELSE /\ submissionStatus' = "error"
            /\ submissionMessage' \in {"Please enter patient name.",
                                       "Please enter a valid age.",
                                       "Please enter audiogram data for at least one ear."}
            /\ timers' = timers]_vars

\* a submit was accepted with thresholds in the right ear only
C2_Witness ==
  /\ lastEvent.op = "submit"
  /\ submissionStatus = "submitting"
  /\ AllNull(leftEarData)
  /\ ~AllNull(rightEarData)
  /\ Len(timers) = 1

\* C3: when a submission in status submitting resolves, the status becomes
\* success and in the same step both datasets are all null and the patient
\* name and age are empty.
C3_ResolveResets ==
  [][lastEvent'.op = "resolve" /\ submissionStatus = "submitting" =>
       /\ submissionStatus' = "success"
       /\ AllNull(leftEarData') /\ AllNull(rightEarData')
       /\ patientName' = <<>>
       /\ patientAge' = <<>>]_vars

\* a submission with thresholds in both ears has resolved
C3_Witness ==
  /\ lastEvent.op = "resolve"
  /\ submissionStatus = "success"
  /\ Len(consoleLog) = 1
  /\ ~AllNull(consoleLog[1].leftEarData)
  /\ ~AllNull(consoleLog[1].rightEarData)
  /\ AllNull(leftEarData) /\ AllNull(rightEarData)

\* C4: whenever the status is error it returns to idle, by the deferred
\* callback or once the user dismisses the dialog.
C4_ErrorReturnsToIdle == (submissionStatus = "error") ~> (submissionStatus = "idle")

\* C5: the message of a failing submit is that of the first failing check, in
\* the order name, age, data; a blank name gives the name message whatever the
\* age and the datasets are.
C5_FirstFailingCheck ==
  [][lastEvent'.op = "submit" =>
       /\ Blank(patientName) =>
            /\ submissionStatus' = "error"
            /\ submissionMessage' = "Please enter patient name."
       /\ ~Blank(patientName) /\ patientAge \notin NumericAges =>
            /\ submissionStatus' = "error"
            /\ submissionMessage' = "Please enter a valid age."
       /\ ~Blank(patientName) /\ patientAge \in NumericAges
          /\ AllNull(leftEarData) /\ AllNull(rightEarData) =>
            /\ submissionStatus' = "error"
            /\ submissionMessage' = "Please enter audiogram data for at least one ear."]_vars

\* a submit failed on a blank name while the age was not numeric either
C5_Witness ==
  /\ lastEvent.op = "submit"
  /\ submissionStatus = "error"
  /\ submissionMessage = "Please enter patient name."
  /\ patientName = <<" ">>
  /\ patientAge = <<"4", "x">>
  /\ ~AllNull(leftEarData)

\* the click at (x, y) pixels falls outside the plot rectangle
ClickOutside(x, y) ==
  \/ x - 80 < 0
  \/ 4 * (x - 80) > 3 * canvas.width - 4 * 80
  \/ y - 80 < 0
  \/ y - 80 > canvas.height - 80 - 50

\* C6: a click outside the plot rectangle changes neither dataset nor any
\* other state of the component.
C6_OutsideClickNoOp ==
  [][lastEvent'.op = "click" /\ ClickOutside(lastEvent'.arg[1], lastEvent'.arg[2]) =>
       UNCHANGED <<leftEarData, rightEarData, selectedEar, isDrawingAir, showSubmission,
                   patientName, patientAge, submissionStatus, submissionMessage,
                   canvas, timers, consoleLog>>]_vars

\* a click past the right edge has run on a store holding a threshold
C6_Witness ==
  /\ lastEvent.op = "click"
  /\ lastEvent.arg = <<601, 179>>
  /\ ~AllNull(rightEarData)
  /\ selectedEar = "right"
  /\ ~isDrawingAir

\* C7: clear(ear) leaves that ear's dataset all null and the other ear's
\* dataset as it was.
C7_ClearOneEar ==
  [][lastEvent'.op = "clear" =>
       IF lastEvent'.arg[1] = "left"
       THEN AllNull(leftEarData') /\ rightEarData' = rightEarData
       ELSE AllNull(rightEarData') /\ leftEarData' = leftEarData]_vars

\* the left ear was cleared while the right ear keeps its thresholds
C7_Witness ==
  /\ lastEvent.op = "clear"
  /\ lastEvent.arg = <<"left">>
  /\ AllNull(leftEarData)
  /\ ~AllNull(rightEarData)

StandardEntries(data) ==
  /\ Len(data) = 6
  /\ <<data[1].frequency, data[2].frequency, data[3].frequency,
       data[4].frequency, data[5].frequency, data[6].frequency>>
     = <<250, 500, 1000, 2000, 4000, 8000>>

\* C8: each ear's dataset holds exactly one entry per standard frequency, in
\* the order 250, 500, 1000, 2000, 4000, 8000.
C8_OneEntryPerFrequency == StandardEntries(leftEarData) /\ StandardEntries(rightEarData)

\* a threshold recorded after an earlier submission resolved
C8_Witness ==
  /\ Len(consoleLog) = 1
  /\ ~AllNull(leftEarData)
  /\ submissionStatus = "submitting"

OnGrid(field) == field # <<>> => field[1] >= -10 /\ field[1] <= 120 /\ field[1] % 5 = 0

\* C9: every recorded threshold lies in [-10, 120] and is a multiple of 5.
C9_ThresholdsOnGrid ==
  \A data \in {leftEarData, rightEarData} : \A i \in 1..Len(data) :
    OnGrid(data[i].airConduction) /\ OnGrid(data[i].boneConduction)

\* both ends of the range are recorded
C9_Witness ==
  /\ leftEarData[1].airConduction = <<-10>>
  /\ rightEarData[4].boneConduction = <<120>>

\* C10: a standard frequency mapped to its pixel and snapped back is itself.
C10_FrequencyRoundTrip == probe.op = "snapped" => probe.nearest = probe.value

\* 2000 Hz mapped and snapped back on a plot of three quarters of a pixel
C10_Witness ==
  /\ probe.op = "snapped"
  /\ probe.value = 2000
  /\ 4 * probe.size = 3 * PixelScale
  /\ probe.pixel > 0
  /\ probe.nearest = 2000

\* C11: an intensity on the grid of multiples of 5 in [-10, 120], mapped to
\* its pixel and back through the click handler's rounding, is itself.
C11_IntensityRoundTrip == probe.op = "quantized" => probe.nearest = probe.value

\* -5 dB mapped and quantized back on a plot one pixel high
C11_Witness ==
  /\ probe.op = "quantized"
  /\ probe.value = -5
  /\ probe.size = PixelScale
  /\ probe.pixel > 0
  /\ probe.nearest = -5

\* the entry (1-based) and the intensity that the clicks of InsideClicks
\* stand for: 250 Hz and 2000 Hz; -10, 20 and 120 dB
ExpectedIndex(x) == IF x = 80 THEN 1 ELSE 4

ExpectedIntensity(y) == IF y = 80 THEN -10 ELSE IF y = 179 THEN 20 ELSE 120

\* `new` is `old` with the one field of entry `index` set to <<intensity>>
OneFieldSet(old, new, index, air, intensity) ==
  /\ Len(new) = Len(old)
  /\ \A i \in 1..Len(old) :
       IF i # index THEN new[i] = old[i]
       ELSE /\ new[i].frequency = old[i].frequency
            /\ IF air
               THEN /\ new[i].airConduction = <<intensity>>
                    /\ new[i].boneConduction = old[i].boneConduction
               ELSE /\ new[i].boneConduction = <<intensity>>
                    /\ new[i].airConduction = old[i].airConduction

\* C12: a click in the plot sets the selected modality's field of the selected
\* ear's entry at the snapped frequency to the quantized intensity, and
\* leaves the entry's other field, the ear's other entries and the other ear
\* as they were.
C12_ClickSetsOneField ==
  [][lastEvent'.op = "click" /\ ~ClickOutside(lastEvent'.arg[1], lastEvent'.arg[2]) =>
       LET index     == ExpectedIndex(lastEvent'.arg[1])
           intensity == ExpectedIntensity(lastEvent'.arg[2])
       IN IF selectedEar = "left"
          THEN /\ OneFieldSet(leftEarData, leftEarData', index, isDrawingAir, intensity)
               /\ rightEarData' = rightEarData
          ELSE /\ OneFieldSet(rightEarData, rightEarData', index, isDrawingAir, intensity)
               /\ leftEarData' = leftEarData]_vars

\* a bone threshold clicked into an entry that keeps its air threshold
C12_Witness ==
  /\ lastEvent.op = "click"
  /\ lastEvent.arg = <<392, 179>>
  /\ selectedEar = "right"
  /\ ~isDrawingAir
  /\ rightEarData[4].boneConduction = <<20>>
  /\ rightEarData[4].airConduction = <<120>>
  /\ AllNull(leftEarData)

IdleAgain ==
  /\ submissionStatus = "idle"
  /\ ~showSubmission
  /\ submissionMessage = ""

\* C13: whenever the status is submitting it becomes success, and after that
\* idle again with the dialog hidden and the message cleared, provided the
\* deferred callbacks run.
C13_SubmittingResolves ==
  (submissionStatus = "submitting") ~> (submissionStatus = "success" /\ <>IdleAgain)

\* one submission has run its whole course
C13_Witness ==
  /\ IdleAgain
  /\ Len(consoleLog) = 1
  /\ timers = <<>>

Pending(pending, kind) == Cardinality({i \in 1..Len(pending) : pending[i].kind = kind})

\* C14, the submit: a valid form is accepted whatever the status is and
\* whatever is pending: its resolution joins the pending callbacks, which all
\* stay as they are.
C14_AcceptedWhilePending ==
  [][lastEvent'.op = "submit" /\ FormValid =>
       /\ submissionStatus' = "submitting"
       /\ Len(timers') = Len(timers) + 1
       /\ SubSeq(timers', 1, Len(timers)) = timers
       /\ timers'[Len(timers')].kind = "resolve"
       /\ timers'[Len(timers')].payload.patientName = patientName
       /\ timers'[Len(timers')].payload.leftEarData = leftEarData]_vars

\* C14, no cancellation: a pending resolution goes away only by running, one
\* at a time, and each run logs one payload, sets success and defers one
\* return to idle; a pending return to idle goes away only by running
C14_NeverCancelled ==
  [][/\ Pending(timers', "resolve") >= Pending(timers, "resolve") - 1
     /\ Pending(timers', "resolve") < Pending(timers, "resolve") =>
          /\ Len(consoleLog') = Len(consoleLog) + 1
          /\ submissionStatus' = "success"
          /\ Pending(timers', "idle") = Pending(timers, "idle") + 1
     /\ Len(consoleLog') # Len(consoleLog) =>
          Pending(timers', "resolve") = Pending(timers, "resolve") - 1
     /\ Pending(timers', "idle") < Pending(timers, "idle") =>
          /\ Pending(timers', "idle") = Pending(timers, "idle") - 1
          /\ submissionStatus' = "idle"]_vars

\* C14, the outcome: two resolutions pending at once give two more logged
\* payloads, and every deferred callback runs in the end
C14_BothResolve ==
  /\ \A n \in 0..MaxFormSubmits :
       (Pending(timers, "resolve") = 2 /\ Len(consoleLog) = n) ~> (Len(consoleLog) = n + 2)
  /\ \A k \in 1..MaxFormSubmits :
       (Pending(timers, "idle") = k) ~> (Pending(timers, "idle") = k - 1)

\* C14: submit is not guarded by the status and deferred resolutions are never
\* cancelled: a submit made while an earlier one is pending is accepted like
\* a first one, and two overlapping accepted submits give two logged
\* payloads, two success resolutions and two returns to idle.
C14_OverlappingSubmits ==
  /\ C14_AcceptedWhilePending
  /\ C14_NeverCancelled
  /\ C14_BothResolve

\* a second submit was accepted while the first one's resolution is pending
C14_Witness ==
  /\ lastEvent.op = "submit"
  /\ submissionStatus = "submitting"
  /\ Len(timers) = 2
  /\ timers[1].kind = "resolve" /\ timers[1].rem < timers[2].rem
  /\ timers[2].kind = "resolve"

\* ---------------------------------------------------------------------- C15
IsResolve(timer) == timer.kind = "resolve"

\* the payloads logged so far, then those of the pending resolutions, oldest first
Snapshots ==
  LET pending == SelectSeq(timers, IsResolve)
  IN consoleLog \o [i \in 1..Len(pending) |-> pending[i].payload]

CurrentForm ==
  [patientName  |-> patientName,
   patientAge   |-> patientAge,
   leftEarData  |-> leftEarData,
   rightEarData |-> rightEarData]

ValidPayload(payload) ==
  /\ ~Blank(payload.patientName)
  /\ payload.patientAge \in NumericAges
  /\ ~(AllNull(payload.leftEarData) /\ AllNull(payload.rightEarData))

\* C15: a payload is the form as it was at the submit click that scheduled it and
\* reaches the log unchanged, whatever is edited or cleared in between: a step
\* either leaves the logged and pending payloads as they are, in order, or is a
\* submit click adding the current form behind them; so every logged payload has
\* a non-blank name, a numeric age and at least one non-null threshold
C15_PayloadIsSnapshot ==
  /\ [](\A i \in 1..Len(consoleLog) : ValidPayload(consoleLog[i]))
  /\ [][\/ Snapshots' = Snapshots
        \/ /\ Snapshots' = Append(Snapshots, CurrentForm)
           /\ ValidPayload(CurrentForm)]_vars

\* one payload is logged and a second resolution is pending whose form has since
\* been blanked and cleared
C15_Witness ==
  /\ Len(consoleLog) = 1
  /\ ValidPayload(consoleLog[1])
  /\ Len(Snapshots) = 2
  /\ Snapshots[2].patientName = <<"A", "l">>
  /\ patientName = <<" ">>
  /\ AllNull(leftEarData)
  /\ ~AllNull(Snapshots[2].leftEarData)

\* ---------------------------------------------------------------------- C16
\* every non-null field of data that is null in cleared is the same in logged
Kept(data, cleared, logged) ==
  \A i \in 1..Len(data) :
    /\ (data[i].airConduction # NULL /\ cleared[i].airConduction = NULL
          => logged[i].airConduction = data[i].airConduction)
    /\ (data[i].boneConduction # NULL /\ cleared[i].boneConduction = NULL
          => logged[i].boneConduction = data[i].boneConduction)

\* C16: a resolution discards no recorded threshold unlogged: every non-null
\* threshold it resets to null, points clicked while it was pending included, is
\* in the payload it logs
C16_NothingDiscardedUnlogged ==
  [][Len(consoleLog') = Len(consoleLog) + 1
       => LET logged == consoleLog'[Len(consoleLog')]
          IN /\ Kept(leftEarData, leftEarData', logged.leftEarData)
             /\ Kept(rightEarData, rightEarData', logged.rightEarData)]_vars

====
